---------------------------- MODULE Spec2Model ----------------------------
(***************************************************************************)
(* A model of satchip's Sentinel-1 RTC chipping path:                      *)
(*   - the scene selector   pair_slcs_to_chips / get_pct_intersect         *)
(*   - the region-size gate check_bounds_size and the catalogue search     *)
(*     get_granules                                                        *)
(*   - the job orchestrator get_rtcs_for / is_valid_rtc_job /              *)
(*     download_hyp3_rtc                                                   *)
(*   - the temporal aligner fill_missing_times and the alignment loop of   *)
(*     chip_data                                                           *)
(* Each component has its own specification (SpecPair, SpecSearch,         *)
(* SpecRtc, SpecAlign); the variables of the other components stay at      *)
(* their idle values.                                                      *)
(***************************************************************************)
EXTENDS Integers, Sequences, FiniteSets, TLC

VARIABLES
    \* pair_slcs_to_chips(chips, granules, strategy)
    chips,            \* argument: list of chips (name, bounds)
    granules,         \* argument: list of granules (sceneName, geometry, startTime)
    strategy,         \* argument: "BEST" or "ALL"
    pair_pc,          \* position in pair_slcs_to_chips
    pair_i,           \* 1-based index of the chip the for loop is at
    intersecting,     \* local `intersecting` after lines 60-61
    slcs_for_chips,   \* local dict under construction
    pair_ret,         \* <<>> until the function returns, then <<dict>>
    pair_err,         \* <<>> until the function raises, then <<chip name>>
    \* get_rtc_paths_for_chips: check_bounds_size(bounds), get_granules(...)
    bounds,           \* argument: <<min_lon, min_lat, max_lon, max_lat>>, in 1/UnitsPerDegree degrees
    date_start,       \* opts['date_start'], a day number
    date_end,         \* opts['date_end'], a day number
    search_pc,        \* position in get_rtc_paths_for_chips
    search_calls,     \* the calls asf.geo_search has received, with what each returned
    search_ret,       \* <<>> until get_granules returns, then <<its result>>
    \* get_rtcs_for(slcs_for_chips, scratch_dir)
    rtc_slcs,         \* argument slcs_for_chips: dict chip name -> list of granules
    scratch_dir,      \* the paths present under scratch_dir
    found_jobs,       \* what hyp3.find_jobs(job_type='RTC_GAMMA') returns
    rtc_pc,           \* position in get_rtcs_for
    jobs_by_scene_name, \* local dict scene name -> job
    slc_names,        \* the scene names the for loop of line 89 has not visited yet
    hyp3_jobs,        \* local list hyp3_jobs, then the batch
    submitted,        \* the calls hyp3.submit_rtc_job has received
    downloaded,       \* the jobs whose download_files has been called
    rtc_j,            \* 1-based index of the job the for loop of line 105 is at
    paths_by_slc_name, \* local dict scene name -> (vv_path, vh_path)
    rtc_ret,          \* <<>> until the function returns, then <<dict>>
    \* chip_data, lines 126-129
    fetched_chips,    \* data_chips as the fetch loop of lines 109-124 left it
    data_chips,       \* local list data_chips
    times,            \* local array times
    align_pc,         \* position in chip_data
    align_i,          \* 1-based index of the chip the for loop of line 127 is at
    \* download_hyp3_rtc(job, scratch_dir), called repeatedly for one job
    dl_job,           \* argument job
    dl_scratch,       \* the paths present under scratch_dir
    dl_pc,            \* "idle", or "calling" while a caller keeps calling
    dl_log            \* one record per call made: what it found, did and returned

pairVars == <<chips, granules, strategy, pair_pc, pair_i, intersecting,
              slcs_for_chips, pair_ret, pair_err>>

searchVars == <<bounds, date_start, date_end, search_pc, search_calls, search_ret>>

rtcVars == <<rtc_slcs, scratch_dir, found_jobs, rtc_pc, jobs_by_scene_name, slc_names,
             hyp3_jobs, submitted, downloaded, rtc_j, paths_by_slc_name, rtc_ret>>

alignVars == <<fetched_chips, data_chips, times, align_pc, align_i>>

downloadVars == <<dl_job, dl_scratch, dl_pc, dl_log>>

notPairVars == <<searchVars, rtcVars, alignVars, downloadVars>>
notSearchVars == <<pairVars, rtcVars, alignVars, downloadVars>>
notRtcVars == <<pairVars, searchVars, alignVars, downloadVars>>
notAlignVars == <<pairVars, searchVars, rtcVars, downloadVars>>
notDownloadVars == <<pairVars, searchVars, rtcVars, alignVars>>

vars == <<pairVars, searchVars, rtcVars, alignVars, downloadVars>>

-----------------------------------------------------------------------------
(* Bounds of the model *)

MaxChips == 2
MaxGranules == 3
MaxSpan == 12            \* widest and tallest region, in 1/UnitsPerDegree degrees
MaxScenesPerChip == 2    \* longest scene list of a chip given to get_rtcs_for
MaxJobs == 2             \* most jobs the service already holds
MaxCells == 2             \* most data chips of a batch
MaxTime == 3              \* the timestamps are 1..MaxTime
MaxCalls == 3            \* most calls of download_hyp3_rtc made for one job
UnitsPerDegree == 4      \* coordinates are multiples of 1/4 degree (exact in binary floating point)

-----------------------------------------------------------------------------
(* Generic helpers *)

\* All sequences of length <= n over S without repeated elements.
InjSeqs(S, n) ==
    UNION {{s \in [1..k -> S] : \A a, b \in 1..k : a # b => s[a] # s[b]} : k \in 0..n}

SetMin(S) == CHOOSE m \in S : \A v \in S : m <= v

\* The elements of a finite set of numbers in ascending order.
RECURSIVE ascending(_)
ascending(S) == IF S = {} THEN <<>> ELSE <<SetMin(S)>> \o ascending(S \ {SetMin(S)})

\* The subsequences of s with at most n elements.
SubSeqs(s, n) ==
    {[k \in 1..Cardinality(S) |-> s[ascending(S)[k]]] :
        S \in {T \in SUBSET (1..Len(s)) : Cardinality(T) <= n}}

\* dict[k] = v  (insert or overwrite)
DictPut(d, k, v) == [x \in (DOMAIN d) \cup {k} |-> IF x = k THEN v ELSE d[x]]

Max2(a, b) == IF a >= b THEN a ELSE b
Min2(a, b) == IF a <= b THEN a ELSE b

-----------------------------------------------------------------------------
(* Geometry: shapely.box, Polygon.intersection, Polygon.area restricted to *)
(* axis-aligned rectangles <<minx, miny, maxx, maxy>> with integer         *)
(* coordinates (every area and quotient below is then exact in the         *)
(* program's floating point as well).                                      *)

box(b) == b

area(b) == IF b[3] > b[1] /\ b[4] > b[2] THEN (b[3] - b[1]) * (b[4] - b[2]) ELSE 0

intersection(a, b) ==
    <<Max2(a[1], b[1]), Max2(a[2], b[2]), Min2(a[3], b[3]), Min2(a[4], b[4])>>

\* numpy.round of the non-negative quotient n / d: to nearest, halves to even.
np_round(n, d) ==
    LET q == n \div d
        r == n % d
    IN  IF 2 * r < d THEN q
        ELSE IF 2 * r > d THEN q + 1
        ELSE IF q % 2 = 0 THEN q ELSE q + 1

\* get_pct_intersect(product, roi)
get_pct_intersect(product, roi) ==
    LET footprint == product.geometry
    IN  np_round(100 * area(intersection(roi, footprint)), area(roi))

-----------------------------------------------------------------------------
(* The scene selector *)

\* mutant: threshold at >= 95
keeps_ge(pct) == pct >= 95

\* The coverage threshold of line 60.
keeps(pct) == pct > 95

\* line 60: the list comprehension (keeps the input order)
RECURSIVE filter_intersecting(_, _)
filter_intersecting(gs, chip_roi) ==
    IF gs = <<>> THEN <<>>
    ELSE LET rest == filter_intersecting(Tail(gs), chip_roi)
         IN  IF keeps(get_pct_intersect(Head(gs), chip_roi))
             THEN <<Head(gs)>> \o rest
             ELSE rest

\* mutant: the acquisition time is left out of the key
key_less_pct_only(a, b, chip_roi) ==
    get_pct_intersect(b, chip_roi) < get_pct_intersect(a, chip_roi)

\* mutant: ascending percentage
key_less_asc_pct(a, b, chip_roi) ==
    LET pa == get_pct_intersect(a, chip_roi)
        pb == get_pct_intersect(b, chip_roi)
    IN  \/ pa < pb
        \/ pa = pb /\ a.properties.startTime < b.properties.startTime

\* line 61: the sort key (-pct, startTime), compared as Python compares tuples
key_less(a, b, chip_roi) ==
    LET pa == get_pct_intersect(a, chip_roi)
        pb == get_pct_intersect(b, chip_roi)
    IN  \/ -pa < -pb
        \/ -pa = -pb /\ a.properties.startTime < b.properties.startTime

\* insert g into the sorted list s behind every element that is not greater
\* (sorted() is stable)
RECURSIVE insert_stable(_, _, _)
insert_stable(s, g, chip_roi) ==
    IF s = <<>> THEN <<g>>
    ELSE IF key_less(g, Head(s), chip_roi) THEN <<g>> \o s
    ELSE <<Head(s)>> \o insert_stable(Tail(s), g, chip_roi)

\* line 61: sorted(intersecting, key=...)
RECURSIVE sorted(_, _)
sorted(gs, chip_roi) ==
    IF gs = <<>> THEN <<>>
    ELSE insert_stable(sorted(SubSeq(gs, 1, Len(gs) - 1), chip_roi), gs[Len(gs)], chip_roi)

\* lines 59-61 for one chip
sorted_intersecting(chip, gs) ==
    LET chip_roi == box(chip.bounds)
    IN  sorted(filter_intersecting(gs, chip_roi), chip_roi)

\* mutant: the strategy is ignored
apply_strategy_ignored(strat, lst) == lst

\* lines 66-67
apply_strategy(strat, lst) ==
    IF strat = "BEST" THEN SubSeq(lst, 1, Min2(1, Len(lst))) ELSE lst

\* mutant: the empty list is stored instead of raising
no_products_never(lst) == FALSE

\* line 63
no_products(lst) == Len(lst) < 1

(* The inputs *)

ChipCatalogue ==
    { [name |-> "chip1", bounds |-> <<0, 0, 200, 1>>],
      [name |-> "chip2", bounds |-> <<0, 1, 200, 2>>],
      [name |-> "chip3", bounds |-> <<300, 0, 400, 1>>] }

Granule(n, g, t) == [geometry |-> g, properties |-> [sceneName |-> n, startTime |-> t]]

GranuleCatalogue ==
    { Granule("S1", <<0, 0, 200, 2>>, 2),     \* 100% of chip1, chip2
      Granule("S2", <<0, 0, 191, 2>>, 1),     \* 95.5% -> 96
      Granule("S3", <<0, 0, 190, 2>>, 1),     \* exactly 95%
      Granule("S4", <<0, 0, 400, 1>>, 1),     \* 100% of chip1, chip3; 0% of chip2
      Granule("S5", <<0, 0, 400, 2>>, 2),     \* 100% of all; ties with S1
      Granule("S6", <<7, 0, 400, 2>>, 3),     \* 96.5% -> 96 of chip1, chip2
      Granule("S7", <<8, 0, 200, 2>>, 1) }    \* exactly 96%; ties with S2

IdlePair ==
    /\ chips = <<>>
    /\ granules = <<>>
    /\ strategy = "BEST"
    /\ pair_pc = "idle"
    /\ pair_i = 1
    /\ intersecting = <<>>
    /\ slcs_for_chips = <<>>
    /\ pair_ret = <<>>
    /\ pair_err = <<>>

IdleSearch ==
    /\ bounds = <<0, 0, 0, 0>>
    /\ date_start = 0
    /\ date_end = 0
    /\ search_pc = "idle"
    /\ search_calls = <<>>
    /\ search_ret = <<>>

IdleRtc ==
    /\ rtc_slcs = <<>>
    /\ scratch_dir = {}
    /\ found_jobs = <<>>
    /\ rtc_pc = "idle"
    /\ jobs_by_scene_name = <<>>
    /\ slc_names = {}
    /\ hyp3_jobs = <<>>
    /\ submitted = <<>>
    /\ downloaded = <<>>
    /\ rtc_j = 1
    /\ paths_by_slc_name = <<>>
    /\ rtc_ret = <<>>

IdleAlign ==
    /\ fetched_chips = <<>>
    /\ data_chips = <<>>
    /\ times = <<>>
    /\ align_pc = "idle"
    /\ align_i = 1

IdleDownload ==
    /\ dl_job = <<>>
    /\ dl_scratch = {}
    /\ dl_pc = "idle"
    /\ dl_log = <<>>

InitPair ==
    /\ IdleSearch
    /\ IdleRtc
    /\ IdleAlign
    /\ IdleDownload
    /\ chips \in InjSeqs(ChipCatalogue, MaxChips)
    /\ granules \in InjSeqs(GranuleCatalogue, MaxGranules)
    /\ strategy \in {"BEST", "ALL"}
    /\ pair_pc = "for"
    /\ pair_i = 1
    /\ intersecting = <<>>
    /\ slcs_for_chips = <<>>
    /\ pair_ret = <<>>
    /\ pair_err = <<>>

\* lines 58-61: the next chip; filter and sort
pair_filter_sort ==
    /\ pair_pc = "for"
    /\ pair_i <= Len(chips)
    /\ intersecting' = sorted_intersecting(chips[pair_i], granules)
    /\ pair_pc' = "check"
    /\ UNCHANGED notPairVars
    /\ UNCHANGED <<chips, granules, strategy, pair_i, slcs_for_chips, pair_ret, pair_err>>

\* lines 63-64: raise ValueError naming the chip
pair_raise ==
    /\ pair_pc = "check"
    /\ no_products(intersecting)
    /\ pair_err' = <<chips[pair_i].name>>
    /\ pair_pc' = "raised"
    /\ UNCHANGED notPairVars
    /\ UNCHANGED <<chips, granules, strategy, pair_i, intersecting, slcs_for_chips, pair_ret>>

\* lines 66-69: truncate under BEST, store under the chip's name
pair_store ==
    /\ pair_pc = "check"
    /\ ~no_products(intersecting)
    /\ slcs_for_chips' =
          DictPut(slcs_for_chips, chips[pair_i].name, apply_strategy(strategy, intersecting))
    /\ pair_i' = pair_i + 1
    /\ pair_pc' = "for"
    /\ UNCHANGED notPairVars
    /\ UNCHANGED <<chips, granules, strategy, intersecting, pair_ret, pair_err>>

\* line 71
pair_return ==
    /\ pair_pc = "for"
    /\ pair_i > Len(chips)
    /\ pair_ret' = <<slcs_for_chips>>
    /\ pair_pc' = "returned"
    /\ UNCHANGED notPairVars
    /\ UNCHANGED <<chips, granules, strategy, pair_i, intersecting, slcs_for_chips, pair_err>>

NextPair == pair_filter_sort \/ pair_raise \/ pair_store \/ pair_return

SpecPair == InitPair /\ [][NextPair]_vars


-----------------------------------------------------------------------------
(* The region-size gate and the catalogue search *)

\* check_bounds_size, line 33, in square units (1/UnitsPerDegree^2 square degrees)
bounds_area_degrees(b) ==
    LET min_lon == b[1]
        min_lat == b[2]
        max_lon == b[3]
        max_lat == b[4]
    IN  (max_lon - min_lon) * (max_lat - min_lat)

\* check_bounds_size, line 32, in the same square units
MAX_BOUND_AREA_DEGREES == 3 * UnitsPerDegree * UnitsPerDegree

\* mutant: the gate lets an area of exactly 3 pass
bounds_ok_le(b) == bounds_area_degrees(b) <= MAX_BOUND_AREA_DEGREES

\* check_bounds_size, line 36: the asserted condition
bounds_ok(b) == bounds_area_degrees(b) < MAX_BOUND_AREA_DEGREES

\* shapely.box(*bounds).wkt: the exterior ring, counter-clockwise from (maxx, miny)
wkt(b) ==
    <<<<b[3], b[2]>>, <<b[3], b[4]>>, <<b[1], b[4]>>, <<b[1], b[2]>>, <<b[3], b[2]>>>>

\* mutant: the end date is passed on as given
inclusive_end_unshifted(end) == end

\* get_granules, line 41: date_end + timedelta(days=1)
inclusive_end(end) == end + 1

\* get_granules, lines 43-51: the keyword arguments of asf.geo_search
geo_search_kwargs(b, start, end) ==
    [ intersectsWith  |-> wkt(box(b)),
      start           |-> start,
      end             |-> inclusive_end(end),
      beamMode        |-> "IW",
      polarization    |-> "VV+VH",
      platform        |-> "SENTINEL-1",
      processingLevel |-> "SLC" ]

\* What the catalogue may answer.
SearchResults == {<<>>, <<"granule1">>, <<"granule1", "granule2">>, <<"granule2", "granule1">>}

Regions ==
    {<<lon, lat, lon + w, lat + h>> :
        lon \in {-UnitsPerDegree, 0}, lat \in {0, 2 * UnitsPerDegree},
        w \in 1..MaxSpan, h \in 1..MaxSpan}

InitSearch ==
    /\ IdlePair
    /\ IdleRtc
    /\ IdleAlign
    /\ IdleDownload
    /\ bounds \in Regions
    /\ date_start \in {0, 7}
    /\ date_end \in {date_start + 1, date_start + 14}
    /\ search_pc = "check_bounds_size"
    /\ search_calls = <<>>
    /\ search_ret = <<>>

\* line 20, check_bounds_size lines 30-36: the assertion holds
check_bounds_size_passes ==
    /\ search_pc = "check_bounds_size"
    /\ bounds_ok(bounds)
    /\ search_pc' = "get_granules"
    /\ UNCHANGED notSearchVars
    /\ UNCHANGED <<bounds, date_start, date_end, search_calls, search_ret>>

\* line 20, check_bounds_size lines 30-36: AssertionError
check_bounds_size_fails ==
    /\ search_pc = "check_bounds_size"
    /\ ~bounds_ok(bounds)
    /\ search_pc' = "AssertionError"
    /\ UNCHANGED notSearchVars
    /\ UNCHANGED <<bounds, date_start, date_end, search_calls, search_ret>>

\* line 21, get_granules lines 39-53: one search, its result returned
get_granules ==
    /\ search_pc = "get_granules"
    /\ \E search_results \in SearchResults :
          /\ search_calls' = Append(search_calls,
                [kwargs |-> geo_search_kwargs(bounds, date_start, date_end),
                 returned |-> search_results])
          /\ search_ret' = <<search_results>>
    /\ search_pc' = "returned"
    /\ UNCHANGED notSearchVars
    /\ UNCHANGED <<bounds, date_start, date_end>>

NextSearch == check_bounds_size_passes \/ check_bounds_size_fails \/ get_granules

SpecSearch == InitSearch /\ [][NextSearch]_vars

-----------------------------------------------------------------------------
(* The job orchestrator *)

\* hyp3_sdk.Job: job_id, job_parameters (granules, radiometry, resolution),
\* status_code, and whether its expiration time has passed.
Job(id, scene, radiometry, resolution, status_code, is_expired) ==
    [ job_id         |-> id,
      job_parameters |-> [granules |-> <<scene>>, radiometry |-> radiometry,
                          resolution |-> resolution],
      status_code    |-> status_code,
      expired        |-> is_expired ]

\* Job.succeeded(), Job.failed(), Job.expired() as the code calls them
succeeded(job) == job.status_code = "SUCCEEDED"
failed(job) == job.status_code = "FAILED"
expired(job) == job.expired

\* mutant: a failed job counts as reusable
is_valid_rtc_job_keeps_failed(job) ==
    /\ ~expired(job)
    /\ job.job_parameters.radiometry = "gamma0"
    /\ job.job_parameters.resolution = 20

\* is_valid_rtc_job, lines 119-125
is_valid_rtc_job(job) ==
    /\ ~failed(job)
    /\ ~expired(job)
    /\ job.job_parameters.radiometry = "gamma0"
    /\ job.job_parameters.resolution = 20

\* lines 75-76: the distinct scene names of all the lists
scene_names_of(slcs) ==
    UNION {{slcs[c][k].properties.sceneName : k \in 1..Len(slcs[c])} : c \in DOMAIN slcs}

\* lines 81-86: the valid jobs by the first granule of each, a later job replacing
\* an earlier one of the same scene
RECURSIVE collect_valid_jobs(_, _)
collect_valid_jobs(jobs, d) ==
    IF jobs = <<>> THEN d
    ELSE IF ~is_valid_rtc_job(Head(jobs)) THEN collect_valid_jobs(Tail(jobs), d)
    ELSE collect_valid_jobs(Tail(jobs),
                            DictPut(d, Head(jobs).job_parameters.granules[1], Head(jobs)))

\* line 94: what hyp3.submit_rtc_job(slc_name, radiometry='gamma0', resolution=20) is given
submit_call(slc_name) == [granule |-> slc_name, radiometry |-> "gamma0", resolution |-> 20]

\* line 95: the job the service creates for a submission
new_job(call) ==
    Job(<<"submitted", call.granule>>, call.granule, call.radiometry, call.resolution,
        "PENDING", FALSE)

\* hyp3.watch, line 98: every job of the batch comes back complete; a job that had
\* succeeded before may have passed its expiration time by then.
watched(job) ==
    IF job.status_code \in {"PENDING", "RUNNING"}
    THEN {[job EXCEPT !.status_code = st] : st \in {"SUCCEEDED", "FAILED"}}
    ELSE IF succeeded(job)
    THEN {[job EXCEPT !.expired = e] : e \in {job.expired, TRUE}}
    ELSE {job}

watch(batch) ==
    {b \in [1..Len(batch) -> UNION {watched(batch[k]) : k \in 1..Len(batch)}] :
        \A k \in 1..Len(batch) : b[k] \in watched(batch[k])}

\* mutant: the jobs are not inspected
all_succeeded_unchecked(batch) == TRUE

\* lines 100-102: all(j.succeeded() for j in batch)
all_succeeded(batch) == \A k \in 1..Len(batch) : succeeded(batch[k])

\* Path.with_suffix on a path with a stem and a suffix
with_suffix(path, suffix) == [path EXCEPT !.suffix = suffix]

\* line 135: scratch_dir / job.to_dict()['files'][0]['filename']
output_path(job) == [stem |-> job.job_id, suffix |-> ".zip"]
\* line 136
output_dir(job) == with_suffix(output_path(job), "")
\* line 137
output_zip(job) == with_suffix(output_path(job), ".zip")

\* mutant: the unpacked directory is never found
dir_exists_never(job, scratch) == FALSE

\* line 138: output_dir.exists()
dir_exists(job, scratch) == output_dir(job) \in scratch

\* line 139: Job.download_files raises HyP3SDKError for a job that has not succeeded
\* or has expired, before it fetches anything
download_refused(job) == ~succeeded(job) \/ expired(job)

\* A file under a directory of scratch_dir, named by the pattern it matches.
File(dir, pattern) == [dir |-> dir, file |-> pattern]

\* The files of the product of a job: the scenes are searched with polarization
\* VV_VH (line 48), so the archive holds a *_VV.tif and a *_VH.tif.
product_files(job) == {File(output_dir(job), "_VV.tif"), File(output_dir(job), "_VH.tif")}

\* lines 139-140: the archive is written to output_zip, unpacked next to itself
\* into output_dir, and removed (extract_zipped_product deletes it by default)
download_and_extract(job, scratch) ==
    (((scratch \cup {output_zip(job)}) \cup {output_dir(job)}) \cup product_files(job))
        \ {output_zip(job)}

\* Path.glob: the files under dir that match the pattern
glob(dir, pattern, scratch) == {File(dir, pattern)} \cap scratch

\* lines 141-142: what list(output_dir.glob(...))[0] can be; none is IndexError
vv_path(job, scratch) == glob(output_dir(job), "_VV.tif", scratch)
vh_path(job, scratch) == glob(output_dir(job), "_VH.tif", scratch)

\* lines 141-143: the pairs download_hyp3_rtc can return; none is IndexError
rtc_path(job, scratch) ==
    {<<vv, vh>> : vv \in vv_path(job, scratch), vh \in vh_path(job, scratch)}

\* mutant: every per-chip list comes out back to front
expand_paths_reversed(slcs, paths) ==
    [chip_name \in DOMAIN slcs |->
        [k \in 1..Len(slcs[chip_name]) |->
            paths[slcs[chip_name][Len(slcs[chip_name]) + 1 - k].properties.sceneName]]]

\* lines 111-114: the per-chip lists of paths
expand_paths(slcs, paths) ==
    [chip_name \in DOMAIN slcs |->
        [k \in 1..Len(slcs[chip_name]) |-> paths[slcs[chip_name][k].properties.sceneName]]]

(* The inputs *)

\* The RTC_GAMMA jobs the service may hold, oldest first.
JobHistory ==
    << Job(<<"found", "1">>, "S1", "gamma0", 20, "SUCCEEDED", FALSE),
       Job(<<"found", "2">>, "S1", "gamma0", 20, "FAILED", FALSE),
       Job(<<"found", "3">>, "S2", "gamma0", 20, "SUCCEEDED", TRUE),
       Job(<<"found", "4">>, "S1", "gamma0", 20, "RUNNING", FALSE),
       Job(<<"found", "5">>, "S4", "sigma0", 20, "SUCCEEDED", FALSE),
       Job(<<"found", "6">>, "S4", "gamma0", 10, "SUCCEEDED", FALSE) >>

RtcGranules == {g \in GranuleCatalogue : g.properties.sceneName \in {"S1", "S2", "S4"}}

SceneLists == InjSeqs(RtcGranules, MaxScenesPerChip) \ {<<>>}

ChipNameSets == {{}, {"chip1"}, {"chip1", "chip2"}}

\* Unpacked products an earlier run may have left under scratch_dir.
ScratchStates ==
    { {},
      download_and_extract(JobHistory[1], {}),
      {output_dir(JobHistory[1]), File(output_dir(JobHistory[1]), "_VV.tif")} }

InitRtc ==
    /\ IdlePair
    /\ IdleSearch
    /\ IdleAlign
    /\ IdleDownload
    /\ \E names \in ChipNameSets : rtc_slcs \in [names -> SceneLists]
    /\ scratch_dir \in ScratchStates
    /\ found_jobs \in SubSeqs(JobHistory, MaxJobs)
    /\ rtc_pc = "find_jobs"
    /\ jobs_by_scene_name = <<>>
    /\ slc_names = {}
    /\ hyp3_jobs = <<>>
    /\ submitted = <<>>
    /\ downloaded = <<>>
    /\ rtc_j = 1
    /\ paths_by_slc_name = <<>>
    /\ rtc_ret = <<>>

\* lines 75-86
rtc_find_jobs ==
    /\ rtc_pc = "find_jobs"
    /\ slc_names' = scene_names_of(rtc_slcs)
    /\ jobs_by_scene_name' = collect_valid_jobs(found_jobs, <<>>)
    /\ rtc_pc' = "for_slc_name"
    /\ UNCHANGED notRtcVars
    /\ UNCHANGED <<rtc_slcs, scratch_dir, found_jobs, hyp3_jobs, submitted, downloaded,
                   rtc_j, paths_by_slc_name, rtc_ret>>

\* lines 89-92: the set yields some scene name, a valid job exists for it
rtc_reuse_job ==
    /\ rtc_pc = "for_slc_name"
    /\ \E slc_name \in slc_names :
          /\ slc_name \in DOMAIN jobs_by_scene_name
          /\ hyp3_jobs' = Append(hyp3_jobs, jobs_by_scene_name[slc_name])
          /\ slc_names' = slc_names \ {slc_name}
    /\ UNCHANGED notRtcVars
    /\ UNCHANGED <<rtc_slcs, scratch_dir, found_jobs, rtc_pc, jobs_by_scene_name, submitted,
                   downloaded, rtc_j, paths_by_slc_name, rtc_ret>>

\* lines 89, 93-95: the set yields some scene name, no valid job exists for it
rtc_submit_job ==
    /\ rtc_pc = "for_slc_name"
    /\ \E slc_name \in slc_names :
          /\ slc_name \notin DOMAIN jobs_by_scene_name
          /\ submitted' = Append(submitted, submit_call(slc_name))
          /\ hyp3_jobs' = Append(hyp3_jobs, new_job(submit_call(slc_name)))
          /\ slc_names' = slc_names \ {slc_name}
    /\ UNCHANGED notRtcVars
    /\ UNCHANGED <<rtc_slcs, scratch_dir, found_jobs, rtc_pc, jobs_by_scene_name,
                   downloaded, rtc_j, paths_by_slc_name, rtc_ret>>

\* lines 97-102: the wait is over, some job has not succeeded: AssertionError
rtc_watch_assert_fails ==
    /\ rtc_pc = "for_slc_name"
    /\ slc_names = {}
    /\ hyp3_jobs' \in watch(hyp3_jobs)
    /\ ~all_succeeded(hyp3_jobs')
    /\ rtc_pc' = "AssertionError"
    /\ UNCHANGED notRtcVars
    /\ UNCHANGED <<rtc_slcs, scratch_dir, found_jobs, jobs_by_scene_name, slc_names, submitted,
                   downloaded, rtc_j, paths_by_slc_name, rtc_ret>>

\* line 98: hyp3.watch gives up on a batch that is still incomplete when its
\* timeout is over (HyP3Error)
rtc_watch_times_out ==
    /\ rtc_pc = "for_slc_name"
    /\ slc_names = {}
    /\ \E k \in 1..Len(hyp3_jobs) : hyp3_jobs[k].status_code \in {"PENDING", "RUNNING"}
    /\ rtc_pc' = "HyP3Error"
    /\ UNCHANGED notRtcVars
    /\ UNCHANGED <<rtc_slcs, scratch_dir, found_jobs, jobs_by_scene_name, slc_names, hyp3_jobs,
                   submitted, downloaded, rtc_j, paths_by_slc_name, rtc_ret>>

\* lines 97-104: the wait is over, every job has succeeded
rtc_watch_assert_passes ==
    /\ rtc_pc = "for_slc_name"
    /\ slc_names = {}
    /\ hyp3_jobs' \in watch(hyp3_jobs)
    /\ all_succeeded(hyp3_jobs')
    /\ rtc_pc' = "for_job"
    /\ UNCHANGED notRtcVars
    /\ UNCHANGED <<rtc_slcs, scratch_dir, found_jobs, jobs_by_scene_name, slc_names, submitted,
                   downloaded, rtc_j, paths_by_slc_name, rtc_ret>>

\* lines 105-109 with download_hyp3_rtc, lines 134-143: the unpacked directory exists
rtc_download_skipped ==
    /\ rtc_pc = "for_job"
    /\ rtc_j <= Len(hyp3_jobs)
    /\ LET job == hyp3_jobs[rtc_j]
       IN  /\ dir_exists(job, scratch_dir)
           /\ \E pair \in rtc_path(job, scratch_dir) :
                 paths_by_slc_name' =
                    DictPut(paths_by_slc_name, job.job_parameters.granules[1], pair)
    /\ rtc_j' = rtc_j + 1
    /\ UNCHANGED notRtcVars
    /\ UNCHANGED <<rtc_slcs, scratch_dir, found_jobs, rtc_pc, jobs_by_scene_name, slc_names,
                   hyp3_jobs, submitted, downloaded, rtc_ret>>

\* lines 105-109 with download_hyp3_rtc, lines 134-143: download and unpack
rtc_download_fetched ==
    /\ rtc_pc = "for_job"
    /\ rtc_j <= Len(hyp3_jobs)
    /\ LET job == hyp3_jobs[rtc_j]
       IN  /\ ~dir_exists(job, scratch_dir)
           /\ ~download_refused(job)
           /\ downloaded' = Append(downloaded, job.job_id)
           /\ scratch_dir' = download_and_extract(job, scratch_dir)
           /\ \E pair \in rtc_path(job, scratch_dir') :
                 paths_by_slc_name' =
                    DictPut(paths_by_slc_name, job.job_parameters.granules[1], pair)
    /\ rtc_j' = rtc_j + 1
    /\ UNCHANGED notRtcVars
    /\ UNCHANGED <<rtc_slcs, found_jobs, rtc_pc, jobs_by_scene_name, slc_names,
                   hyp3_jobs, submitted, rtc_ret>>

\* lines 106, 138-139: Job.download_files refuses an expired job (HyP3SDKError)
rtc_download_refused ==
    /\ rtc_pc = "for_job"
    /\ rtc_j <= Len(hyp3_jobs)
    /\ LET job == hyp3_jobs[rtc_j]
       IN  /\ ~dir_exists(job, scratch_dir)
           /\ download_refused(job)
           /\ downloaded' = Append(downloaded, job.job_id)
    /\ rtc_pc' = "HyP3SDKError"
    /\ UNCHANGED notRtcVars
    /\ UNCHANGED <<rtc_slcs, scratch_dir, found_jobs, jobs_by_scene_name, slc_names,
                   hyp3_jobs, submitted, rtc_j, paths_by_slc_name, rtc_ret>>

\* lines 106, 138, 141-142: the unpacked directory exists without a *_VV.tif or
\* without a *_VH.tif: list(...)[0] raises IndexError
rtc_download_index_error ==
    /\ rtc_pc = "for_job"
    /\ rtc_j <= Len(hyp3_jobs)
    /\ dir_exists(hyp3_jobs[rtc_j], scratch_dir)
    /\ rtc_path(hyp3_jobs[rtc_j], scratch_dir) = {}
    /\ rtc_pc' = "IndexError"
    /\ UNCHANGED notRtcVars
    /\ UNCHANGED <<rtc_slcs, scratch_dir, found_jobs, jobs_by_scene_name, slc_names,
                   hyp3_jobs, submitted, downloaded, rtc_j, paths_by_slc_name, rtc_ret>>

\* lines 111-116
rtc_return ==
    /\ rtc_pc = "for_job"
    /\ rtc_j > Len(hyp3_jobs)
    /\ rtc_ret' = <<expand_paths(rtc_slcs, paths_by_slc_name)>>
    /\ rtc_pc' = "returned"
    /\ UNCHANGED notRtcVars
    /\ UNCHANGED <<rtc_slcs, scratch_dir, found_jobs, jobs_by_scene_name, slc_names,
                   hyp3_jobs, submitted, downloaded, rtc_j, paths_by_slc_name>>

NextRtc ==
    \/ rtc_find_jobs \/ rtc_reuse_job \/ rtc_submit_job
    \/ rtc_watch_times_out \/ rtc_watch_assert_fails \/ rtc_watch_assert_passes
    \/ rtc_download_skipped \/ rtc_download_fetched \/ rtc_download_refused
    \/ rtc_download_index_error
    \/ rtc_return

SpecRtc == InitRtc /\ [][NextRtc]_vars

-----------------------------------------------------------------------------
(* The artifact download, called repeatedly for one job *)

\* The jobs a caller may hand to download_hyp3_rtc: those of the service's history
\* and a job submitted by get_rtcs_for that has since succeeded.
DownloadJobs ==
    {JobHistory[k] : k \in 1..Len(JobHistory)} \cup {[new_job(submit_call("S2")) EXCEPT !.status_code = "SUCCEEDED"]}

\* What an earlier run may have left of a job's product under scratch_dir: nothing,
\* or its directory with all, some or none of its files (an interrupted extraction).
Leftovers(job) == {{}} \cup {{output_dir(job)} \cup F : F \in SUBSET product_files(job)}

\* The scratch directory on entry: leftovers of two products and possibly an archive
\* whose extraction never happened.
DownloadScratchStates ==
    {(A \cup B) \cup Z : A \in Leftovers(JobHistory[1]), B \in Leftovers(JobHistory[3]),
                         Z \in SUBSET {output_zip(JobHistory[1])}}

\* One call of download_hyp3_rtc as its caller and the filesystem see it: raised is
\* "" when the call returned ret, the name of the exception otherwise.
Call(before, fetched, after, raised, ret) ==
    [before |-> before, fetched |-> fetched, after |-> after, raised |-> raised, ret |-> ret]

InitDownload ==
    /\ IdlePair
    /\ IdleSearch
    /\ IdleRtc
    /\ IdleAlign
    /\ dl_job \in DownloadJobs
    /\ dl_scratch \in DownloadScratchStates
    /\ dl_pc = "calling"
    /\ dl_log = <<>>

\* lines 135-138, 141-143: the unpacked directory exists, nothing is fetched
download_skipped ==
    /\ dl_pc = "calling"
    /\ Len(dl_log) < MaxCalls
    /\ dir_exists(dl_job, dl_scratch)
    /\ \E pair \in rtc_path(dl_job, dl_scratch) :
          dl_log' = Append(dl_log, Call(dl_scratch, FALSE, dl_scratch, "", pair))
    /\ UNCHANGED <<dl_job, dl_scratch, dl_pc>>
    /\ UNCHANGED notDownloadVars

\* lines 135-138, 141-142: the unpacked directory exists without a *_VV.tif or
\* without a *_VH.tif: list(...)[0] raises IndexError
download_index_error ==
    /\ dl_pc = "calling"
    /\ Len(dl_log) < MaxCalls
    /\ dir_exists(dl_job, dl_scratch)
    /\ rtc_path(dl_job, dl_scratch) = {}
    /\ dl_log' = Append(dl_log, Call(dl_scratch, FALSE, dl_scratch, "IndexError", <<>>))
    /\ UNCHANGED <<dl_job, dl_scratch, dl_pc>>
    /\ UNCHANGED notDownloadVars

\* lines 135-143: the directory is missing, the archive is fetched and unpacked
download_fetched ==
    /\ dl_pc = "calling"
    /\ Len(dl_log) < MaxCalls
    /\ ~dir_exists(dl_job, dl_scratch)
    /\ ~download_refused(dl_job)
    /\ dl_scratch' = download_and_extract(dl_job, dl_scratch)
    /\ \E pair \in rtc_path(dl_job, dl_scratch') :
          dl_log' = Append(dl_log, Call(dl_scratch, TRUE, dl_scratch', "", pair))
    /\ UNCHANGED <<dl_job, dl_pc>>
    /\ UNCHANGED notDownloadVars

\* lines 135-139: the directory is missing and Job.download_files raises
download_raised ==
    /\ dl_pc = "calling"
    /\ Len(dl_log) < MaxCalls
    /\ ~dir_exists(dl_job, dl_scratch)
    /\ download_refused(dl_job)
    /\ dl_log' = Append(dl_log, Call(dl_scratch, FALSE, dl_scratch, "HyP3SDKError", <<>>))
    /\ UNCHANGED <<dl_job, dl_scratch, dl_pc>>
    /\ UNCHANGED notDownloadVars

\* Between two calls the expiration time of a succeeded job passes.
job_expires ==
    /\ dl_pc = "calling"
    /\ Len(dl_log) < MaxCalls
    /\ succeeded(dl_job)
    /\ ~expired(dl_job)
    /\ dl_job' = [dl_job EXCEPT !.expired = TRUE]
    /\ UNCHANGED <<dl_scratch, dl_pc, dl_log>>
    /\ UNCHANGED notDownloadVars

NextDownload ==
    \/ download_skipped \/ download_index_error \/ download_fetched \/ download_raised
    \/ job_expires

SpecDownload == InitDownload /\ [][NextDownload]_vars

-----------------------------------------------------------------------------
(* The temporal aligner *)

\* A data chip (xr.DataArray with dims time, band, y, x): its coordinates, its
\* dtype, and data[t][b][y][x].
DataArray(time, band, y, x, dtype, data) ==
    [time |-> time, band |-> band, y |-> y, x |-> x, dtype |-> dtype, data |-> data]

SeqRange(s) == {s[k] : k \in 1..Len(s)}

\* np.concatenate of an empty list raises ValueError
np_concatenate_raises(arrays) == arrays = <<>>

\* np.concatenate of a list of arrays
RECURSIVE np_concatenate(_)
np_concatenate(arrays) ==
    IF arrays = <<>> THEN <<>> ELSE Head(arrays) \o np_concatenate(Tail(arrays))

\* np.unique: the sorted distinct values
np_unique(a) == ascending(SeqRange(a))

\* np.setdiff1d: the sorted distinct values of a that are not in b
np_setdiff1d(a, b) == ascending(SeqRange(a) \ SeqRange(b))

\* np.full(shape, 0, dtype): data[t][b][y][x] = 0
np_full_zero(nt, nb, ny, nx) ==
    [t \in 1..nt |-> [b \in 1..nb |-> [yy \in 1..ny |-> [xx \in 1..nx |-> 0]]]]

\* the dtype of a concatenation: numpy type promotion over the dtypes of the
\* chips, uint16 and float32 (every uint16 is a float32)
result_type(d1, d2) == IF "float32" \in {d1, d2} THEN "float32" ELSE "uint16"

\* xr.concat([a, b], dim='time')
xr_concat_time(a, b) ==
    DataArray(a.time \o b.time, a.band, a.y, a.x, result_type(a.dtype, b.dtype),
              a.data \o b.data)

\* the positions of the time axis in ascending order of their timestamps, equal
\* timestamps in their original order
RECURSIVE insert_index(_, _, _)
insert_index(order, k, time) ==
    IF order = <<>> THEN <<k>>
    ELSE IF time[k] < time[Head(order)] THEN <<k>> \o order
    ELSE <<Head(order)>> \o insert_index(Tail(order), k, time)

RECURSIVE argsort(_, _)
argsort(time, n) == IF n = 0 THEN <<>> ELSE insert_index(argsort(time, n - 1), n, time)

\* mutant: the concatenation is left in the order of concatenation
sortby_time_skipped(da) == da

\* DataArray.sortby('time')
sortby_time(da) ==
    LET order == argsort(da.time, Len(da.time))
    IN  [da EXCEPT !.time = [k \in 1..Len(order) |-> da.time[order[k]]],
                   !.data = [k \in 1..Len(order) |-> da.data[order[k]]]]

\* fill_missing_times, lines 23-36
fill_missing_times(data_chip, all_times) ==
    LET missing_times == np_setdiff1d(all_times, data_chip.time)
        missing_data ==
            DataArray(missing_times, data_chip.band, data_chip.y, data_chip.x,
                      data_chip.dtype,
                      np_full_zero(Len(missing_times), Len(data_chip.band),
                                   Len(data_chip.y), Len(data_chip.x)))
    IN  sortby_time(xr_concat_time(data_chip, missing_data))

\* line 128
needs_fill(data_chip, all_times) == Len(data_chip.time) < Len(all_times)

(* The inputs *)

\* Two bands of the platform: the chips are those of get_data_fn (lines 118-124).
Bands == <<"B02", "B03">>
YCoords == <<0>>
XCoords == <<0, 1>>
Dtypes == {"float32", "uint16"}

\* The time axes a fetched chip can have: not empty, ascending, without duplicates.
TimeAxes == {ascending(S) : S \in (SUBSET (1..MaxTime)) \ {{}}}

\* The pixels of a fetched chip: pattern 0 has zero pixels of its own.
FetchedChip(time, dtype, pattern) ==
    DataArray(time, Bands, YCoords, XCoords, dtype,
              [t \in 1..Len(time) |-> [b \in 1..Len(Bands) |-> [yy \in 1..Len(YCoords) |->
                  [xx \in 1..Len(XCoords) |-> pattern * (10 * time[t] + b) + (xx - 1)]]]])

InitAlign ==
    /\ IdlePair
    /\ IdleSearch
    /\ IdleRtc
    /\ IdleDownload
    /\ \E n \in 0..MaxCells : \E dtype \in Dtypes :
          fetched_chips \in [1..n -> {FetchedChip(t, dtype, p) : t \in TimeAxes, p \in {0, 1}}]
    /\ data_chips = fetched_chips
    /\ times = <<>>
    /\ align_pc = "times"
    /\ align_i = 1

\* line 126: there is no chip, np.concatenate raises ValueError
align_times_raises ==
    /\ align_pc = "times"
    /\ np_concatenate_raises([k \in 1..Len(data_chips) |-> data_chips[k].time])
    /\ align_pc' = "ValueError"
    /\ UNCHANGED notAlignVars
    /\ UNCHANGED <<fetched_chips, data_chips, times, align_i>>

\* line 126
align_times ==
    /\ align_pc = "times"
    /\ ~np_concatenate_raises([k \in 1..Len(data_chips) |-> data_chips[k].time])
    /\ times' = np_unique(np_concatenate([k \in 1..Len(data_chips) |-> data_chips[k].time]))
    /\ align_pc' = "for"
    /\ UNCHANGED notAlignVars
    /\ UNCHANGED <<fetched_chips, data_chips, align_i>>

\* lines 127-129: the chip has fewer timestamps than the batch
align_fill ==
    /\ align_pc = "for"
    /\ align_i <= Len(data_chips)
    /\ needs_fill(data_chips[align_i], times)
    /\ data_chips' = [data_chips EXCEPT ![align_i] = fill_missing_times(data_chips[align_i], times)]
    /\ align_i' = align_i + 1
    /\ UNCHANGED notAlignVars
    /\ UNCHANGED <<fetched_chips, times, align_pc>>

\* lines 127-128: the chip is left as it is
align_keep ==
    /\ align_pc = "for"
    /\ align_i <= Len(data_chips)
    /\ ~needs_fill(data_chips[align_i], times)
    /\ align_i' = align_i + 1
    /\ UNCHANGED notAlignVars
    /\ UNCHANGED <<fetched_chips, data_chips, times, align_pc>>

\* line 130: the loop is over
align_done ==
    /\ align_pc = "for"
    /\ align_i > Len(data_chips)
    /\ align_pc' = "aligned"
    /\ UNCHANGED notAlignVars
    /\ UNCHANGED <<fetched_chips, data_chips, times, align_i>>

NextAlign == align_times_raises \/ align_times \/ align_fill \/ align_keep \/ align_done

SpecAlign == InitAlign /\ [][NextAlign]_vars

-----------------------------------------------------------------------------
(* Properties of the scene selector *)

Range(s) == {s[k] : k \in 1..Len(s)}

InputOrders(n) == {p \in [1..n -> 1..n] : \A a, b \in 1..n : a # b => p[a] # p[b]}

Permute(s, p) == [k \in 1..Len(s) |-> s[p[k]]]

\* The exact coverage ratio of granule g over the chip is at least 95.5%, the
\* least ratio whose nearest integer percentage exceeds 95.
CoversMoreThan95(chip, g) ==
    200 * area(intersection(box(chip.bounds), g.geometry)) >= 191 * area(box(chip.bounds))

CoversExactly(chip, g, pct) ==
    100 * area(intersection(box(chip.bounds), g.geometry)) = pct * area(box(chip.bounds))

Pct(chip, g) == get_pct_intersect(g, box(chip.bounds))

Time(g) == g.properties.startTime

\* Indices of the granules that qualify for the chip.
Qualifying(chip) == {k \in 1..Len(granules) : Pct(chip, granules[k]) > 95}

\* The claimed rank: descending percentage, then ascending time, then input order.
RankedBefore(chip, a, b) ==
    \/ Pct(chip, granules[a]) > Pct(chip, granules[b])
    \/ /\ Pct(chip, granules[a]) = Pct(chip, granules[b])
       /\ \/ Time(granules[a]) < Time(granules[b])
          \/ Time(granules[a]) = Time(granules[b]) /\ a < b

\* The ordered qualifying list, stated declaratively.
OrderedQualifying(chip) ==
    LET Q == Qualifying(chip)
        order == CHOOSE s \in [1..Cardinality(Q) -> Q] :
                     \A a, b \in 1..Cardinality(Q) : a < b => RankedBefore(chip, s[a], s[b])
    IN  [k \in 1..Cardinality(Q) |-> granules[order[k]]]

ChipSet == Range(chips)

\* C1: a footprint is kept for a cell iff its rounded intersection percentage is
\* strictly greater than 95: exactly 95% is excluded, 96% is included. Checked on
\* the filtered list of every cell, and on every returned list.
C1_ThresholdStrictlyAbove95 ==
    /\ pair_pc = "check" =>
          \A k \in 1..Len(granules) :
             LET chip == chips[pair_i]
                 g == granules[k]
             IN  /\ (g \in Range(intersecting)) <=> CoversMoreThan95(chip, g)
                 /\ CoversExactly(chip, g, 95) => g \notin Range(intersecting)
                 /\ CoversExactly(chip, g, 96) => g \in Range(intersecting)
    /\ pair_pc = "returned" =>
          \A chip \in ChipSet : \A g \in Range(granules) :
             /\ g \in Range(pair_ret[1][chip.name]) => CoversMoreThan95(chip, g)
             /\ strategy = "ALL" /\ CoversMoreThan95(chip, g) => g \in Range(pair_ret[1][chip.name])

\* A cell offered a footprint at exactly 95% (dropped) and one at exactly 96% (kept).
C1_Witness ==
    /\ pair_pc = "check"
    /\ \E a, b \in Range(granules) :
          /\ CoversExactly(chips[pair_i], a, 95)
          /\ CoversExactly(chips[pair_i], b, 96)
          /\ a \notin Range(intersecting)
          /\ b \in Range(intersecting)

Descending(chip, lst) ==
    \A k \in 1..(Len(lst) - 1) :
       \/ Pct(chip, lst[k]) > Pct(chip, lst[k + 1])
       \/ Pct(chip, lst[k]) = Pct(chip, lst[k + 1]) /\ Time(lst[k]) <= Time(lst[k + 1])

\* C2: every cell's list is ordered by descending intersection percentage and,
\* among equal percentages, by ascending acquisition time.
C2_OrderedByPctThenTime ==
    /\ pair_pc = "check" => Descending(chips[pair_i], intersecting)
    /\ pair_pc = "returned" =>
          \A chip \in ChipSet : Descending(chip, pair_ret[1][chip.name])

\* A returned list of three whose order differs from the input order: a tie on
\* percentage broken by time, then a smaller percentage.
C2_Witness ==
    /\ pair_pc = "returned"
    /\ \E chip \in ChipSet :
          LET lst == pair_ret[1][chip.name]
          IN  /\ Len(lst) = 3
              /\ Pct(chip, lst[1]) = Pct(chip, lst[2])
              /\ Time(lst[1]) < Time(lst[2])
              /\ Pct(chip, lst[2]) > Pct(chip, lst[3])
              /\ lst # granules

\* C3: BEST returns exactly the first element of the cell's ordered qualifying
\* list, ALL the whole ordered qualifying list.
C3_StrategyBestOrAll ==
    pair_pc = "returned" =>
       \A chip \in ChipSet :
          /\ chip.name \in DOMAIN pair_ret[1]
          /\ strategy = "BEST" =>
                /\ Len(pair_ret[1][chip.name]) = 1
                /\ pair_ret[1][chip.name] = <<OrderedQualifying(chip)[1]>>
          /\ strategy = "ALL" => pair_ret[1][chip.name] = OrderedQualifying(chip)

\* BEST over a cell with several qualifying footprints, the best not the first given.
C3_Witness ==
    /\ pair_pc = "returned"
    /\ strategy = "BEST"
    /\ \E chip \in ChipSet :
          /\ Cardinality(Qualifying(chip)) >= 2
          /\ pair_ret[1][chip.name][1] # granules[1]
          /\ 1 \in Qualifying(chip)

FirstUnmatched(k) ==
    /\ Qualifying(chips[k]) = {}
    /\ \A j \in 1..(k - 1) : Qualifying(chips[j]) # {}

\* C4: a cell without qualifying footprints aborts the call with an error naming
\* the cell and nothing is returned; a returned mapping has a non-empty list for
\* every cell.
C4_NoMatchAborts ==
    /\ (\E chip \in ChipSet : Qualifying(chip) = {}) =>
          /\ pair_pc # "returned"
          /\ pair_ret = <<>>
    /\ pair_pc = "raised" =>
          /\ pair_ret = <<>>
          /\ \E k \in 1..Len(chips) : FirstUnmatched(k) /\ pair_err = <<chips[k].name>>
    /\ pair_pc = "returned" =>
          /\ pair_err = <<>>
          /\ DOMAIN pair_ret[1] = {chip.name : chip \in ChipSet}
          /\ \A chip \in ChipSet : Len(pair_ret[1][chip.name]) >= 1

\* The second cell has no match after the first one was paired: nothing is returned.
C4_Witness ==
    /\ pair_pc = "raised"
    /\ pair_i = 2
    /\ DOMAIN slcs_for_chips # {}
    /\ pair_ret = <<>>

\* What the call returns for one chip when given the granules gs.
PairedFor(chip, gs) == apply_strategy(strategy, sorted_intersecting(chip, gs))

TiedOnBoth(chip, a, b) == Pct(chip, a) = Pct(chip, b) /\ Time(a) = Time(b)

NoQualifyingTie(chip) ==
    \A a, b \in Qualifying(chip) :
       a # b => ~TiedOnBoth(chip, granules[a], granules[b])

\* C10 as claimed: every permutation of the input footprints gives every cell the
\* identical list, ties on both keys included.
C10_PermutationIndependent ==
    pair_pc = "returned" =>
       \A p \in InputOrders(Len(granules)) : \A chip \in ChipSet :
          PairedFor(chip, Permute(granules, p)) = pair_ret[1][chip.name]

\* C10 amended: every permutation gives a cell the identical list when no two
\* footprints qualifying for the cell tie on both percentage and time; footprints
\* that tie on both come out in the order they were supplied.
C10_PermutationIndependentUpToTies ==
    pair_pc = "returned" =>
       \A chip \in ChipSet :
          /\ NoQualifyingTie(chip) =>
                \A p \in InputOrders(Len(granules)) :
                   PairedFor(chip, Permute(granules, p)) = pair_ret[1][chip.name]
          /\ \A p \in InputOrders(Len(granules)) :
                LET out == PairedFor(chip, Permute(granules, p))
                IN  /\ Len(out) = Len(pair_ret[1][chip.name])
                    /\ \A k \in 1..Len(out) :
                          /\ Pct(chip, out[k]) = Pct(chip, pair_ret[1][chip.name][k])
                          /\ Time(out[k]) = Time(pair_ret[1][chip.name][k])
                    /\ \A a, b \in 1..Len(out) :
                          a < b /\ TiedOnBoth(chip, out[a], out[b]) =>
                             \E x, y \in 1..Len(granules) :
                                /\ x < y
                                /\ granules[p[x]] = out[a]
                                /\ granules[p[y]] = out[b]

\* ALL over three footprints given out of order, none tying on both keys, two
\* tying on percentage only.
C10_Witness ==
    /\ pair_pc = "returned"
    /\ strategy = "ALL"
    /\ \E chip \in ChipSet :
          /\ NoQualifyingTie(chip)
          /\ Len(pair_ret[1][chip.name]) = 3
          /\ Pct(chip, pair_ret[1][chip.name][1]) = Pct(chip, pair_ret[1][chip.name][2])
          /\ pair_ret[1][chip.name] # granules

-----------------------------------------------------------------------------
(* Properties of the region-size gate and the catalogue search *)

\* The area of the region in square units, and three square degrees in them.
RegionArea == (bounds[3] - bounds[1]) * (bounds[4] - bounds[2])
ThreeSquareDegrees == 3 * UnitsPerDegree * UnitsPerDegree

\* C5: check_bounds_size succeeds iff the area of the bounds is strictly less than
\* 3 square degrees; exactly 3 fails.
C5_BoundsGateStrict ==
    /\ search_pc \in {"get_granules", "returned"} => RegionArea < ThreeSquareDegrees
    /\ search_pc = "AssertionError" => RegionArea >= ThreeSquareDegrees
    /\ RegionArea = ThreeSquareDegrees => search_pc \in {"check_bounds_size", "AssertionError"}

\* The largest area below 3 square degrees that the regions offer has passed the gate.
C5_Witness ==
    /\ search_pc = "get_granules"
    /\ RegionArea < ThreeSquareDegrees
    /\ \A r \in Regions : bounds_area_degrees(r) < ThreeSquareDegrees
                             => bounds_area_degrees(r) <= RegionArea

BoundingPolygon ==
    <<<<bounds[3], bounds[2]>>, <<bounds[3], bounds[4]>>, <<bounds[1], bounds[4]>>,
      <<bounds[1], bounds[2]>>, <<bounds[3], bounds[2]>>>>

\* C6: get_granules calls the catalogue search exactly once, with the start date
\* unchanged, the end date plus one day and the bounding polygon of the bounds,
\* and returns what the search returned.
C6_SearchOnceInclusiveEnd ==
    /\ Len(search_calls) <= 1
    /\ search_pc # "returned" => search_calls = <<>> /\ search_ret = <<>>
    /\ search_pc = "returned" =>
          /\ Len(search_calls) = 1
          /\ search_calls[1].kwargs.start = date_start
          /\ search_calls[1].kwargs.end = date_end + 1
          /\ search_calls[1].kwargs.intersectsWith = BoundingPolygon
          /\ search_ret = <<search_calls[1].returned>>

\* A fourteen-day range searched, two granules returned.
C6_Witness ==
    /\ search_pc = "returned"
    /\ date_end = date_start + 14
    /\ Len(search_calls) = 1
    /\ Len(search_ret[1]) = 2

-----------------------------------------------------------------------------
(* Properties of the job orchestrator *)

\* The scene names some cell requires.
RequiredScenes ==
    {g.properties.sceneName : g \in UNION {Range(rtc_slcs[c]) : c \in DOMAIN rtc_slcs}}

CellsRequiring(scene) ==
    {c \in DOMAIN rtc_slcs : \E g \in Range(rtc_slcs[c]) : g.properties.sceneName = scene}

\* The service already holds a job for the scene that is not failed, not expired
\* and has the canonical parameters.
Reusable(scene) ==
    \E k \in 1..Len(found_jobs) :
       /\ found_jobs[k].job_parameters.granules[1] = scene
       /\ found_jobs[k].status_code # "FAILED"
       /\ ~found_jobs[k].expired
       /\ found_jobs[k].job_parameters.radiometry = "gamma0"
       /\ found_jobs[k].job_parameters.resolution = 20

SubmissionsFor(scene) == Cardinality({k \in 1..Len(submitted) : submitted[k].granule = scene})

AllScenes == {g.properties.sceneName : g \in GranuleCatalogue}

SubmissionLoopDone == rtc_pc # "find_jobs" /\ slc_names = {}

\* C7: no job is submitted for a scene with a reusable job or for a scene no cell
\* requires, never more than one per scene, and once the submission loop is over
\* exactly one for every required scene without a reusable job.
C7_SubmitOncePerMissingScene ==
    \A scene \in AllScenes :
       /\ SubmissionsFor(scene) <= 1
       /\ Reusable(scene) => SubmissionsFor(scene) = 0
       /\ scene \notin RequiredScenes => SubmissionsFor(scene) = 0
       /\ SubmissionLoopDone /\ scene \in RequiredScenes /\ ~Reusable(scene)
             => SubmissionsFor(scene) = 1

\* Two cells share a scene whose only job on the service is unusable (one
\* submission), and require another scene that has a reusable job (none).
C7_Witness ==
    /\ SubmissionLoopDone
    /\ \E a, b \in RequiredScenes :
          /\ Cardinality(CellsRequiring(a)) = 2
          /\ ~Reusable(a)
          /\ \E k \in 1..Len(found_jobs) : found_jobs[k].job_parameters.granules[1] = a
          /\ SubmissionsFor(a) = 1
          /\ Reusable(b)
          /\ SubmissionsFor(b) = 0

WaitOver == rtc_pc \in {"AssertionError", "for_job", "HyP3SDKError", "IndexError", "returned"}

BatchJobs == Range(hyp3_jobs)

\* C8 as claimed: a job that is FAILED or expired after the wait keeps
\* get_rtcs_for from returning any mapping.
C8_FailedOrExpiredAborts ==
    WaitOver /\ (\E job \in BatchJobs : job.status_code = "FAILED" \/ job.expired) =>
       /\ rtc_pc # "returned"
       /\ rtc_ret = <<>>

\* C8 amended: a job that is not SUCCEEDED after the wait stops the call at the
\* assertion, before any download, and nothing is returned; a job that is SUCCEEDED
\* but expired stops it only if its unpacked directory is not in the scratch
\* directory (the download is refused).
C8_NotSucceededAborts ==
    /\ WaitOver /\ (\E job \in BatchJobs : job.status_code # "SUCCEEDED") =>
          /\ rtc_pc = "AssertionError"
          /\ rtc_ret = <<>>
          /\ paths_by_slc_name = <<>>
          /\ downloaded = <<>>
    /\ WaitOver /\ (\E job \in BatchJobs :
                       job.expired /\ [stem |-> job.job_id, suffix |-> ""] \notin scratch_dir) =>
          /\ rtc_pc # "returned"
          /\ rtc_ret = <<>>
    /\ rtc_pc \in {"HyP3Error", "AssertionError", "HyP3SDKError", "IndexError"} => rtc_ret = <<>>

\* The assertion has failed on a batch in which one job failed and another succeeded.
C8_Witness ==
    /\ rtc_pc = "AssertionError"
    /\ \E a, b \in BatchJobs : a.status_code = "FAILED" /\ b.status_code = "SUCCEEDED"
    /\ rtc_ret = <<>>

\* The batch jobs made from a scene.
JobsOfScene(scene) == {job \in BatchJobs : job.job_parameters.granules[1] = scene}

\* The VV and VH files of a job's unpacked product.
ArtifactOf(job) ==
    <<[dir |-> [stem |-> job.job_id, suffix |-> ""], file |-> "_VV.tif"],
      [dir |-> [stem |-> job.job_id, suffix |-> ""], file |-> "_VH.tif"]>>

\* C11: when get_rtcs_for returns, the result has exactly the cell names of the
\* input mapping; every cell's list of path pairs is as long as its scene list and
\* its i-th entry is the artifact of the one batch job made from the i-th scene; a
\* scene shared by several cells has the same artifact in each of them.
C11_ReexpandedInInputOrder ==
    rtc_pc = "returned" =>
       LET ret == rtc_ret[1]
       IN  /\ Len(rtc_ret) = 1
           /\ DOMAIN ret = DOMAIN rtc_slcs
           /\ \A c \in DOMAIN rtc_slcs :
                 /\ DOMAIN ret[c] = 1..Len(rtc_slcs[c])
                 /\ \A i \in 1..Len(rtc_slcs[c]) :
                       /\ Cardinality(JobsOfScene(rtc_slcs[c][i].properties.sceneName)) = 1
                       /\ \A job \in JobsOfScene(rtc_slcs[c][i].properties.sceneName) :
                             ret[c][i] = ArtifactOf(job)
           /\ \A c, d \in DOMAIN rtc_slcs :
                 \A i \in 1..Len(rtc_slcs[c]) : \A j \in 1..Len(rtc_slcs[d]) :
                    rtc_slcs[c][i].properties.sceneName = rtc_slcs[d][j].properties.sceneName
                       => ret[c][i] = ret[d][j]

\* Two cells list the same two scenes in opposite orders, one served by a reused
\* job and the other by a submitted one, and the call has returned.
C11_Witness ==
    /\ rtc_pc = "returned"
    /\ \E c, d \in DOMAIN rtc_slcs :
          /\ c # d
          /\ Len(rtc_slcs[c]) = 2
          /\ Len(rtc_slcs[d]) = 2
          /\ rtc_slcs[c][1] = rtc_slcs[d][2]
          /\ rtc_slcs[c][2] = rtc_slcs[d][1]
          /\ rtc_ret[1][c][1] = rtc_ret[1][d][2]
          /\ rtc_ret[1][c][1] # rtc_ret[1][c][2]
    /\ Len(submitted) = 1
    /\ \E k \in 1..Len(hyp3_jobs) : hyp3_jobs[k].job_id[1] = "found"

-----------------------------------------------------------------------------
(* Properties of the artifact download *)

\* The unpacked directory download_hyp3_rtc expects for the job.
ExpectedDir == [stem |-> dl_job.job_id, suffix |-> ""]

FetchingCalls == {k \in 1..Len(dl_log) : dl_log[k].fetched}

\* The VV and VH files download_hyp3_rtc looks for under the expected directory.
ExpectedPair ==
    <<[dir |-> ExpectedDir, file |-> "_VV.tif"], [dir |-> ExpectedDir, file |-> "_VH.tif"]>>

DirectoryComplete(scratch) == ExpectedPair[1] \in scratch /\ ExpectedPair[2] \in scratch

\* At most one call fetches the archive, and every call after it finds the
\* directory, fetches nothing and returns the pair.
FetchedAtMostOnce ==
    /\ Cardinality(FetchingCalls) <= 1
    /\ \A k \in FetchingCalls : \A l \in (k + 1)..Len(dl_log) :
          /\ ExpectedDir \in dl_log[l].before
          /\ ~dl_log[l].fetched
          /\ dl_log[l].ret = dl_log[k].ret

\* C12 as claimed: a call that finds the job's expected unpacked directory fetches
\* and unpacks nothing, leaves the scratch directory as it was and returns the
\* VV/VH pair, the same at every call; the archive is fetched at most once.
C12_DownloadIdempotentReturnsPair ==
    /\ \A k \in 1..Len(dl_log) :
          ExpectedDir \in dl_log[k].before =>
             /\ ~dl_log[k].fetched
             /\ dl_log[k].after = dl_log[k].before
             /\ dl_log[k].raised = ""
             /\ dl_log[k].ret = ExpectedPair
    /\ FetchedAtMostOnce

\* C12 amended: a call that finds the job's expected unpacked directory fetches and
\* unpacks nothing and leaves the scratch directory as it was; it returns the VV/VH
\* pair if the directory holds both files and raises IndexError otherwise, and so
\* does every later call; the archive is fetched at most once, and all the calls
\* that return yield the same pair.
C12_DownloadIdempotent ==
    /\ \A k \in 1..Len(dl_log) :
          ExpectedDir \in dl_log[k].before =>
             /\ ~dl_log[k].fetched
             /\ dl_log[k].after = dl_log[k].before
             /\ DirectoryComplete(dl_log[k].before) =>
                   dl_log[k].raised = "" /\ dl_log[k].ret = ExpectedPair
             /\ ~DirectoryComplete(dl_log[k].before) => dl_log[k].raised = "IndexError"
             /\ \A l \in (k + 1)..Len(dl_log) :
                   /\ dl_log[l].before = dl_log[k].before
                   /\ dl_log[l].raised = dl_log[k].raised
                   /\ dl_log[l].ret = dl_log[k].ret
    /\ FetchedAtMostOnce
    /\ \A k \in 1..Len(dl_log) : dl_log[k].raised = "" => dl_log[k].ret = ExpectedPair

\* The first call fetched and unpacked the archive into a scratch directory that
\* held other products, the second found the directory and returned the same pair.
C12_Witness ==
    /\ Len(dl_log) >= 2
    /\ dl_log[1].fetched
    /\ dl_log[1].before # {}
    /\ ExpectedDir \notin dl_log[1].before
    /\ ~dl_log[2].fetched
    /\ dl_log[2].raised = ""
    /\ dl_log[2].after = dl_log[2].before
    /\ dl_log[2].ret = dl_log[1].ret
    /\ dl_scratch = dl_log[1].after

-----------------------------------------------------------------------------
(* Properties of the temporal aligner *)

\* The timestamps observed across the fetched chips of the batch.
ObservedTimes == UNION {Range(fetched_chips[k].time) : k \in 1..Len(fetched_chips)}

StrictlyAscending(s) == \A k \in 1..(Len(s) - 1) : s[k] < s[k + 1]

AllZero(slice, nb, ny, nx) ==
    /\ DOMAIN slice = 1..nb
    /\ \A b \in 1..nb :
          /\ DOMAIN slice[b] = 1..ny
          /\ \A yy \in 1..ny :
                /\ DOMAIN slice[b][yy] = 1..nx
                /\ \A xx \in 1..nx : slice[b][yy][xx] = 0

\* C9: after the alignment every chip of the batch has the ascending,
\* duplicate-free union of the observed timestamps as its time axis, and every
\* slice at a timestamp the chip did not have is zero for every band, in the
\* chip's own dtype and shape.
C9_AlignedToUnionZeroFilled ==
    align_pc = "aligned" =>
       \A i \in 1..Len(data_chips) :
          LET chip == data_chips[i]
              was == fetched_chips[i]
          IN  /\ StrictlyAscending(chip.time)
              /\ Range(chip.time) = ObservedTimes
              /\ \A j \in 1..Len(data_chips) : data_chips[j].time = chip.time
              /\ Len(chip.data) = Len(chip.time)
              /\ chip.dtype = was.dtype
              /\ chip.band = was.band /\ chip.y = was.y /\ chip.x = was.x
              /\ \A k \in 1..Len(chip.time) :
                    chip.time[k] \notin Range(was.time) =>
                       AllZero(chip.data[k], Len(was.band), Len(was.y), Len(was.x))

\* A chip was given a zero slice at a timestamp before one of its own.
C9_Witness ==
    /\ align_pc = "aligned"
    /\ \E i \in 1..Len(data_chips) : \E k \in 1..(Len(data_chips[i].time) - 1) :
          /\ data_chips[i].time[k] \notin Range(fetched_chips[i].time)
          /\ data_chips[i].time[k + 1] \in Range(fetched_chips[i].time)
          /\ AllZero(data_chips[i].data[k], 2, 1, 2)
          /\ ~AllZero(data_chips[i].data[k + 1], 2, 1, 2)

=============================================================================
